---------------------------- MODULE Spec2Model ----------------------------
(***************************************************************************)
(* Model of burp_time_analyzer.py: the command line entry point, the       *)
(* sampled extraction of timestamps, the clustering of timestamps into     *)
(* work sessions, the per-session / per-day aggregation and the duration   *)
(* formatter.                                                              *)
(*                                                                         *)
(* Clock values.  The extractor only yields 13-digit numbers that start    *)
(* with 177, i.e. 1770000000000 + v with 0 <= v < 10^10.  TLC integers are *)
(* 32 bits wide, so a timestamp is held as its offset v from               *)
(* 1770000000000 ms (2026-02-02 02:40:00 UTC), counted in ticks of `unit'  *)
(* milliseconds.  unit = 1 (milliseconds) everywhere except in the         *)
(* behaviours of SpecIdiom, whose timestamps span the whole 177-range and  *)
(* are held in whole seconds (unit = 1000).  The code only subtracts and   *)
(* compares timestamps, which is unaffected by the common offset; the one  *)
(* absolute use, the calendar date, adds the offset's time of day back     *)
(* (DayKey).                                                               *)
(***************************************************************************)
EXTENDS Integers, Sequences, FiniteSets, TLC

VARIABLES
    pc,               \* control position of the run
    ret,              \* who called analyze_sessions: "project" or "direct"
    unit,             \* milliseconds per tick of the timestamps (see above)
    argv,             \* [file |-> BOOLEAN, gap |-> "absent" | "bad" | integer]
    tz,               \* local time zone of the process, minutes east of UTC
    session_gap,      \* session_gap / session_gap_minutes
    exit_code,        \* process exit status, -1 while running
    out,              \* what was printed so far, one tag per block
    result,           \* return value of analyze_burp_project
    file_size,        \* extract_timestamps: file_size
    positions,        \* extract_timestamps: positions
    i,                \* extract_timestamps: 1-based index of the next region
    found,            \* extract_timestamps: the local set `timestamps'
    attempts,         \* history: <<position, outcome>> of every region read
    completed,        \* history: union of what the completed reads yielded
    timestamps,       \* the sorted list handed to the analysis
    gap_ms,           \* analyze_sessions: gap_ms (in ticks)
    sessions,         \* analyze_sessions: sessions / the caller's sessions
    current_session,  \* analyze_sessions: current_session
    k,                \* analyze_sessions: 1-based index of the next timestamp
    total_work_time,  \* analyze_burp_project: total_work_time
    daily_work,       \* analyze_burp_project: daily_work (day_key -> bucket)
    rows,             \* the printed session rows
    j,                \* analyze_burp_project: 1-based index of the next session
    ms,               \* format_duration called directly: its argument
    text              \* format_duration called directly: its result

vars == <<pc, ret, unit, argv, tz, session_gap, exit_code, out, result,
          file_size, positions, i, found, attempts, completed, timestamps,
          gap_ms, sessions, current_session, k, total_work_time, daily_work,
          rows, j, ms, text>>

----------------------------------------------------------------------------
(* Bounds of the model *)

MaxRegionHits == 2     \* timestamps one region read can yield
MaxSizeSteps == 4      \* file sizes up to MaxSizeSteps * 250 MiB (+1)
MaxGapMinutes == 5     \* largest gap argument tried besides the default
MaxLen == 4            \* longest list handed to analyze_sessions directly
MaxHours == 2          \* largest hour count formatted

(* Program constants *)

ChunkMiB == 100        \* chunk_size = 100 * 1024 * 1024
SampleMiB == 500       \* threshold and stride of the sampling
DefaultGap == 30       \* default of session_gap
MinSessionMs == 300000 \* minimum session duration
MaxRows == 30          \* session rows printed
IdiomGap == 99999      \* "use a large value (e.g. 99999) to disable session splits"

MiB == 1024 * 1024
chunk_size == ChunkMiB * MiB
SampleBytes == SampleMiB * MiB
MinuteMs == 60 * 1000
DayMs == 24 * 60 * MinuteMs
Pending == [kind |-> "pending"]      \* analyze_burp_project has not returned
NoSession == [start |-> 0, end |-> 0, requests |-> 0]

----------------------------------------------------------------------------
(* Helpers *)

Max(a, b) == IF a >= b THEN a ELSE b

RECURSIVE SortedSeq(_)
\* sorted(S) for a finite set of integers
SortedSeq(S) ==
    IF S = {} THEN <<>>
    ELSE LET m == CHOOSE x \in S : \A y \in S : x <= y
         IN <<m>> \o SortedSeq(S \ {m})

Range(s) == {s[n] : n \in DOMAIN s}

RECURSIVE SumSeq(_)
SumSeq(s) == IF s = <<>> THEN 0 ELSE Head(s) + SumSeq(Tail(s))

RECURSIVE SumOver(_, _)
\* sum of f[x] over the elements x of the finite set S
SumOver(f, S) ==
    IF S = {} THEN 0
    ELSE LET x == CHOOSE y \in S : TRUE IN f[x] + SumOver(f, S \ {x})

SubsetsUpTo(S, n) == {X \in SUBSET S : Cardinality(X) <= n}

RECURSIVE NonDecreasing(_, _)
\* the non-decreasing sequences over the set of integers S of length <= n
NonDecreasing(S, n) ==
    IF n = 0 THEN {<<>>}
    ELSE LET shorter == NonDecreasing(S, n - 1)
             longest == {t \in shorter : Len(t) = n - 1}
             ext == {p \in longest \X S :
                        Len(p[1]) = 0 \/ p[1][Len(p[1])] <= p[2]}
         IN shorter \cup {Append(p[1], p[2]) : p \in ext}

----------------------------------------------------------------------------
(* Inputs *)

\* 2026-02-02 02:40:00 UTC, the time of day of offset 0, and the first UTC
\* midnight after it, in minutes
EpochMinuteOfDay == 2 * 60 + 40
MidnightMark == 24 * 60 - EpochMinuteOfDay

\* Timestamps (ms offsets) a file may hold: around offset 0, MaxGapMinutes
\* later, and around the next UTC midnight, each also 1 ms later
Marks == {0, MaxGapMinutes, MidnightMark - 1, MidnightMark}
Stamps == {m * MinuteMs + d : m \in Marks, d \in {0, 1}}

\* sys.argv[2]: missing, not an integer literal, or an integer
GapValues == {0, 1, MaxGapMinutes}
GapArgs == {[kind |-> "absent", value |-> 0], [kind |-> "bad", value |-> 0]}
           \cup {[kind |-> "int", value |-> v] : v \in GapValues}
\* sys.argv: without the file there is no second argument either
ArgvChoices == {[file |-> FALSE, gap |-> [kind |-> "absent", value |-> 0]]}
               \cup {[file |-> TRUE, gap |-> g] : g \in GapArgs}
TimeZones == {0, 60}
FileSizes == {n * (SampleBytes \div 2) + d : n \in 0..MaxSizeSteps, d \in {0, 1}}

\* SpecIdiom: second offsets spanning the whole range of 13-digit numbers
\* that start with 177
IdiomStamps == {0, 1, IdiomGap * 60, IdiomGap * 60 + 1, 9999998, 9999999}

\* format_duration called directly
FormatInputs ==
    {h * 60 * MinuteMs + m * MinuteMs + s * 1000 + r :
        h \in 0..MaxHours, m \in {0, 1, 59}, s \in {0, 1, 59}, r \in {0, 1, 999}}
    \cup {-1, -100, -1000, -MinuteMs, -60 * MinuteMs}

----------------------------------------------------------------------------
(* extract_timestamps *)

RECURSIVE SamplePositions(_, _, _)
\* lines 29-31: while pos < file_size - chunk_size: append, advance
SamplePositions(acc, pos, size) ==
    IF pos < size - chunk_size
    THEN SamplePositions(Append(acc, pos), pos + SampleBytes, size)
    ELSE acc

\* lines 25-35
Positions(size) ==
    IF size > SampleBytes
    THEN SortedSeq(Range(Append(SamplePositions(<<0>>, SampleBytes, size),
                                Max(0, size - chunk_size))))
    ELSE <<0>>

\* line 41: dd bs=1M skip=pos // MiB count=chunk_size // MiB reads these bytes
RegionStart(pos) == (pos \div MiB) * MiB
RegionEnd(pos) == RegionStart(pos) + (chunk_size \div MiB) * MiB


----------------------------------------------------------------------------
(* Initial states *)

Idle ==
    /\ exit_code = -1 /\ out = <<>> /\ result = Pending
    /\ file_size = 0 /\ positions = <<>> /\ i = 0 /\ found = {}
    /\ attempts = <<>> /\ completed = {}
    /\ gap_ms = 0 /\ sessions = <<>> /\ current_session = NoSession /\ k = 0
    /\ total_work_time = 0 /\ daily_work = <<>> /\ rows = <<>> /\ j = 0
    /\ text = ""

\* python3 burp_time_analyzer.py [file [gap_minutes]]
InitMain ==
    /\ pc = "main" /\ ret = "project" /\ unit = 1
    /\ argv \in ArgvChoices
    /\ tz \in TimeZones
    /\ session_gap = 0 /\ timestamps = <<>> /\ ms = 0
    /\ Idle

\* analyze_sessions(T, G) called on its own with a non-decreasing T and G > 0
InitSessions ==
    /\ pc = "analyze" /\ ret = "direct" /\ unit = 1
    /\ argv = [file |-> FALSE, gap |-> [kind |-> "absent", value |-> 0]]
    /\ tz = 0
    /\ session_gap \in {1, MaxGapMinutes}
    /\ timestamps \in NonDecreasing(Stamps, MaxLen)
    /\ ms = 0
    /\ Idle

Init == InitMain \/ InitSessions

\* analyze_sessions(T, 99999) on a list the extractor can return: sorted,
\* without duplicates, not empty
InitIdiom ==
    /\ pc = "analyze" /\ ret = "direct" /\ unit = 1000
    /\ argv = [file |-> FALSE, gap |-> [kind |-> "absent", value |-> 0]]
    /\ tz = 0
    /\ session_gap = IdiomGap
    /\ timestamps \in {SortedSeq(S) : S \in SUBSET IdiomStamps \ {{}}}
    /\ ms = 0
    /\ Idle

\* format_duration(ms) called on its own
InitFormat ==
    /\ pc = "format" /\ ret = "direct" /\ unit = 1
    /\ argv = [file |-> FALSE, gap |-> [kind |-> "absent", value |-> 0]]
    /\ tz = 0
    /\ session_gap = 0 /\ timestamps = <<>>
    /\ ms \in FormatInputs
    /\ Idle

----------------------------------------------------------------------------
(* __main__, lines 204-218 *)

\* lines 205-213: no file argument
Usage ==
    /\ pc = "main"
    /\ ~argv.file
    /\ out' = Append(out, "usage")
    /\ exit_code' = 1
    /\ pc' = "exit"
    /\ UNCHANGED <<ret, unit, argv, tz, session_gap, result, file_size,
                   positions, i, found, attempts, completed, timestamps,
                   gap_ms, sessions, current_session, k, total_work_time,
                   daily_work, rows, j, ms, text>>

\* line 216: int(sys.argv[2]) raises ValueError, the interpreter exits with 1
BadGap ==
    /\ pc = "main"
    /\ argv.file
    /\ argv.gap.kind = "bad"
    /\ out' = Append(out, "traceback")
    /\ exit_code' = 1
    /\ pc' = "exit"
    /\ UNCHANGED <<ret, unit, argv, tz, session_gap, result, file_size,
                   positions, i, found, attempts, completed, timestamps,
                   gap_ms, sessions, current_session, k, total_work_time,
                   daily_work, rows, j, ms, text>>

\* lines 215-218 and 113-118: the arguments are taken, analyze_burp_project
\* prints its banner and calls extract_timestamps
Start ==
    /\ pc = "main"
    /\ argv.file
    /\ argv.gap.kind # "bad"
    /\ session_gap' = IF argv.gap.kind = "int" THEN argv.gap.value ELSE DefaultGap
    /\ out' = out \o <<"banner", "extracting">>
    /\ pc' = "getsize"
    /\ UNCHANGED <<ret, unit, argv, tz, exit_code, result, file_size,
                   positions, i, found, attempts, completed, timestamps,
                   gap_ms, sessions, current_session, k, total_work_time,
                   daily_work, rows, j, ms, text>>

----------------------------------------------------------------------------
(* extract_timestamps, lines 13-60 *)

\* line 18: os.path.getsize raises OSError (no such file, no access); nothing
\* catches it and the interpreter exits with 1
GetSizeFails ==
    /\ pc = "getsize"
    /\ out' = Append(out, "traceback")
    /\ exit_code' = 1
    /\ pc' = "exit"
    /\ UNCHANGED <<ret, unit, argv, tz, session_gap, result, file_size,
                   positions, i, found, attempts, completed, timestamps,
                   gap_ms, sessions, current_session, k, total_work_time,
                   daily_work, rows, j, ms, text>>

\* lines 18-37: the size is read and the regions are chosen
GetSize ==
    /\ pc = "getsize"
    /\ \E size \in FileSizes :
          /\ file_size' = size
          /\ positions' = Positions(size)
    /\ found' = {}
    /\ i' = 1
    /\ out' = out \o <<"file_size", "sections">>
    /\ pc' = "regions"
    /\ UNCHANGED <<ret, unit, argv, tz, session_gap, exit_code, result,
                   attempts, completed, timestamps, gap_ms, sessions,
                   current_session, k, total_work_time, daily_work, rows, j,
                   ms, text>>

\* lines 39-54: the pipeline of one region ends in time; every 13-digit line
\* of its output is added to the set
ReadRegion ==
    /\ pc = "regions"
    /\ i <= Len(positions)
    /\ \E hits \in SubsetsUpTo(Stamps, MaxRegionHits) :
          /\ found' = found \cup hits
          /\ completed' = completed \cup hits
    /\ attempts' = Append(attempts, <<positions[i], "read">>)
    /\ i' = i + 1
    /\ UNCHANGED <<pc, ret, unit, argv, tz, session_gap, exit_code, out,
                   result, file_size, positions, timestamps, gap_ms, sessions,
                   current_session, k, total_work_time, daily_work, rows, j,
                   ms, text>>

\* a variant of AfterTimeout that leaves the loop (break)
AfterTimeoutBreak == Len(positions) + 1

\* what a region that timed out does to the loop, lines 56-58: continue
AfterTimeout == i + 1

\* lines 44-50 and 56-58: subprocess.run raises TimeoutExpired
RegionTimeout ==
    /\ pc = "regions"
    /\ i <= Len(positions)
    /\ attempts' = Append(attempts, <<positions[i], "timeout">>)
    /\ out' = Append(out, "timeout")
    /\ i' = AfterTimeout
    /\ UNCHANGED <<pc, ret, unit, argv, tz, session_gap, exit_code, result,
                   file_size, positions, found, completed, timestamps, gap_ms,
                   sessions, current_session, k, total_work_time, daily_work,
                   rows, j, ms, text>>

\* line 60: return sorted(timestamps)
ExtractReturn ==
    /\ pc = "regions"
    /\ i > Len(positions)
    /\ timestamps' = SortedSeq(found)
    /\ pc' = "extracted"
    /\ UNCHANGED <<ret, unit, argv, tz, session_gap, exit_code, out, result,
                   file_size, positions, i, found, attempts, completed,
                   gap_ms, sessions, current_session, k, total_work_time,
                   daily_work, rows, j, ms, text>>

----------------------------------------------------------------------------
(* analyze_sessions, lines 62-89 *)

\* line 67: gap_ms = session_gap_minutes * 60 * 1000, in ticks of u ms
GapMs(session_gap_minutes, u) == session_gap_minutes * 60 * (1000 \div u)

\* a variant of Splits that also splits at a gap equal to the threshold
SplitsAtThreshold(ts, end, gap) == ts - end >= gap

\* line 77: the gap to the running session's end starts a new session
Splits(ts, end, gap) == ts - end > gap

\* lines 64-65: if not timestamps: return []
AnalyzeEmpty ==
    /\ pc = "analyze"
    /\ timestamps = <<>>
    /\ sessions' = <<>>
    /\ pc' = "analyzed"
    /\ UNCHANGED <<ret, unit, argv, tz, session_gap, exit_code, out, result,
                   file_size, positions, i, found, attempts, completed,
                   timestamps, gap_ms, current_session, k, total_work_time,
                   daily_work, rows, j, ms, text>>

\* lines 67-74
AnalyzeStart ==
    /\ pc = "analyze"
    /\ timestamps # <<>>
    /\ gap_ms' = GapMs(session_gap, unit)
    /\ sessions' = <<>>
    /\ current_session' = [start |-> timestamps[1], end |-> timestamps[1],
                           requests |-> 1]
    /\ k' = 2
    /\ pc' = "cluster"
    /\ UNCHANGED <<ret, unit, argv, tz, session_gap, exit_code, out, result,
                   file_size, positions, i, found, attempts, completed,
                   timestamps, total_work_time, daily_work, rows, j, ms, text>>

\* lines 77-83: the session is closed and a new one starts at ts
SplitSession ==
    /\ pc = "cluster"
    /\ k <= Len(timestamps)
    /\ Splits(timestamps[k], current_session.end, gap_ms)
    /\ sessions' = Append(sessions, current_session)
    /\ current_session' = [start |-> timestamps[k], end |-> timestamps[k],
                           requests |-> 1]
    /\ k' = k + 1
    /\ UNCHANGED <<pc, ret, unit, argv, tz, session_gap, exit_code, out,
                   result, file_size, positions, i, found, attempts,
                   completed, timestamps, gap_ms, total_work_time, daily_work,
                   rows, j, ms, text>>

\* a variant of Extended that does not count the request
ExtendedNoCount(session, ts) == [session EXCEPT !.end = ts]

\* lines 84-86: the session is extended to ts
Extended(session, ts) ==
    [session EXCEPT !.end = ts, !.requests = @ + 1]

ExtendSession ==
    /\ pc = "cluster"
    /\ k <= Len(timestamps)
    /\ ~Splits(timestamps[k], current_session.end, gap_ms)
    /\ current_session' = Extended(current_session, timestamps[k])
    /\ k' = k + 1
    /\ UNCHANGED <<pc, ret, unit, argv, tz, session_gap, exit_code, out,
                   result, file_size, positions, i, found, attempts,
                   completed, timestamps, gap_ms, sessions, total_work_time,
                   daily_work, rows, j, ms, text>>

\* lines 88-89: the last session is appended and the list returned
AnalyzeReturn ==
    /\ pc = "cluster"
    /\ k > Len(timestamps)
    /\ sessions' = Append(sessions, current_session)
    /\ pc' = "analyzed"
    /\ UNCHANGED <<ret, unit, argv, tz, session_gap, exit_code, out, result,
                   file_size, positions, i, found, attempts, completed,
                   timestamps, gap_ms, current_session, k, total_work_time,
                   daily_work, rows, j, ms, text>>

----------------------------------------------------------------------------
(* format_duration, lines 91-105.  seconds = ms / 1000 is a float; its      *)
(* floor divisions and remainders are those of the exact quotient, taken    *)
(* here on the milliseconds.                                                *)

\* a variant of Secs that rounds to the nearest second
SecsRounded(d) == ((d % (60 * 1000)) + 500) \div 1000

Hours(d) == d \div (3600 * 1000)                  \* int(seconds // 3600)
Minutes(d) == (d % (3600 * 1000)) \div (60 * 1000)  \* int((seconds % 3600) // 60)
Secs(d) == (d % (60 * 1000)) \div 1000            \* int(seconds % 60)

format_duration(d) ==
    IF d < 0 THEN "0s"
    ELSE IF Hours(d) > 0
         THEN ToString(Hours(d)) \o "h " \o ToString(Minutes(d)) \o "m"
         ELSE IF Minutes(d) > 0
              THEN ToString(Minutes(d)) \o "m " \o ToString(Secs(d)) \o "s"
              ELSE ToString(Secs(d)) \o "s"

\* the call returns the string
FormatCall ==
    /\ pc = "format"
    /\ text' = format_duration(ms)
    /\ pc' = "formatted"
    /\ UNCHANGED <<ret, unit, argv, tz, session_gap, exit_code, out, result,
                   file_size, positions, i, found, attempts, completed,
                   timestamps, gap_ms, sessions, current_session, k,
                   total_work_time, daily_work, rows, j, ms>>

----------------------------------------------------------------------------
(* analyze_burp_project, lines 111-202 *)

\* lines 107-109 and 158: the local calendar date of a timestamp, as the
\* number of local days since 2026-02-02 (strftime('%Y-%m-%d') is one-to-one
\* in it)
DayKey(ts) == (ts + (EpochMinuteOfDay + tz) * MinuteMs) \div DayMs

\* a variant of Duration without the five minute minimum
DurationRaw(session) == session.end - session.start

\* lines 151-155: the session's duration, at least five minutes
Duration(session) ==
    LET duration == session.end - session.start
    IN IF duration < MinSessionMs THEN MinSessionMs ELSE duration

\* a variant of SessionDay that books a session on the day it ends
SessionDayByEnd(session) == DayKey(session.end)

\* line 158: the day a session is booked on
SessionDay(session) == DayKey(session.start)

\* lines 143 and 159-161: daily_work[day_key] gets the session
Booked(daily, day_key, duration, session) ==
    LET old == IF day_key \in DOMAIN daily THEN daily[day_key]
               ELSE [time |-> 0, sessions |-> 0, requests |-> 0]
        new == [time |-> old.time + duration,
                sessions |-> old.sessions + 1,
                requests |-> old.requests + session.requests]
    IN [d \in DOMAIN daily \cup {day_key} |->
            IF d = day_key THEN new ELSE daily[d]]

\* a variant of NoTimestamps that prints the notice and does not return
NoTimestampsFallsThrough ==
    /\ pc = "extracted"
    /\ timestamps = <<>>
    /\ out' = Append(out, "no_timestamps")
    /\ pc' = "analyze"
    /\ file_size' = 0 /\ positions' = <<>> /\ i' = 0 /\ found' = {}
    /\ attempts' = <<>> /\ completed' = {}
    /\ UNCHANGED <<ret, unit, argv, tz, session_gap, exit_code, result,
                   timestamps, gap_ms, sessions, current_session, k,
                   total_work_time, daily_work, rows, j, ms, text>>

\* a variant of NoTimestamps that ends the process with status 1
NoTimestampsExits ==
    /\ pc = "extracted"
    /\ timestamps = <<>>
    /\ out' = Append(out, "no_timestamps")
    /\ exit_code' = 1
    /\ pc' = "exit"
    /\ file_size' = 0 /\ positions' = <<>> /\ i' = 0 /\ found' = {}
    /\ attempts' = <<>> /\ completed' = {}
    /\ UNCHANGED <<ret, unit, argv, tz, session_gap, result, timestamps,
                   gap_ms, sessions, current_session, k, total_work_time,
                   daily_work, rows, j, ms, text>>

\* lines 121-123: nothing was found
NoTimestamps ==
    /\ pc = "extracted"
    /\ timestamps = <<>>
    /\ out' = Append(out, "no_timestamps")
    /\ result' = [kind |-> "None"]
    /\ pc' = "returned"
    \* the frame of extract_timestamps is gone
    /\ file_size' = 0 /\ positions' = <<>> /\ i' = 0 /\ found' = {}
    /\ attempts' = <<>> /\ completed' = {}
    /\ UNCHANGED <<ret, unit, argv, tz, session_gap, exit_code, timestamps,
                   gap_ms, sessions, current_session, k, total_work_time,
                   daily_work, rows, j, ms, text>>

\* lines 125-137: the count and the time range are printed, analyze_sessions
\* is called
TimeRange ==
    /\ pc = "extracted"
    /\ timestamps # <<>>
    /\ out' = out \o <<"found", "time_range">>
    /\ pc' = "analyze"
    \* the frame of extract_timestamps is gone
    /\ file_size' = 0 /\ positions' = <<>> /\ i' = 0 /\ found' = {}
    /\ attempts' = <<>> /\ completed' = {}
    /\ UNCHANGED <<ret, unit, argv, tz, session_gap, exit_code, result,
                   timestamps, gap_ms, sessions, current_session, k,
                   total_work_time, daily_work, rows, j, ms, text>>

\* lines 139-146: the head of the session table
TableHead ==
    /\ pc = "analyzed"
    /\ ret = "project"
    /\ out' = Append(out, "session_table")
    /\ total_work_time' = 0
    /\ daily_work' = <<>>
    /\ j' = 1
    /\ pc' = "aggregate"
    /\ UNCHANGED <<ret, unit, argv, tz, session_gap, exit_code, result,
                   file_size, positions, i, found, attempts, completed,
                   timestamps, gap_ms, sessions, current_session, k, rows,
                   ms, text>>

\* lines 148-169: one session is booked and, among the first 30, printed
AggregateSession ==
    /\ pc = "aggregate"
    /\ j <= Len(sessions)
    /\ LET session == sessions[j]
           duration == Duration(session)
           day_key == SessionDay(session)
       IN /\ total_work_time' = total_work_time + duration
          /\ daily_work' = Booked(daily_work, day_key, duration, session)
          /\ rows' = IF j <= MaxRows
                     THEN Append(rows, [no |-> j,
                                        date |-> DayKey(session.start),
                                        duration |-> format_duration(duration),
                                        requests |-> session.requests])
                     ELSE rows
    /\ out' = IF j = MaxRows + 1 THEN Append(out, "more_sessions") ELSE out
    /\ j' = j + 1
    /\ UNCHANGED <<pc, ret, unit, argv, tz, session_gap, exit_code, result,
                   file_size, positions, i, found, attempts, completed,
                   timestamps, gap_ms, sessions, current_session, k, ms, text>>

\* line 191: total_days = len(daily_work)
TotalDays(daily) == Cardinality(DOMAIN daily)

\* lines 171-202: the summary, the table of days and the returned summary
Summary ==
    /\ pc = "aggregate"
    /\ j > Len(sessions)
    /\ out' = out \o <<"summary", "per_day", "total", "estimate">>
    /\ result' = [kind |-> "summary",
                  total_hours |-> [ms |-> total_work_time, per |-> 1000 * 3600],
                  total_days |-> TotalDays(daily_work),
                  sessions |-> Len(sessions),
                  requests |-> Len(timestamps)]
    /\ pc' = "returned"
    /\ UNCHANGED <<ret, unit, argv, tz, session_gap, exit_code, file_size,
                   positions, i, found, attempts, completed, timestamps,
                   gap_ms, sessions, current_session, k, total_work_time,
                   daily_work, rows, j, ms, text>>

\* line 218 returns and the script ends: exit status 0
Exit ==
    /\ pc = "returned"
    /\ exit_code' = 0
    /\ pc' = "exit"
    /\ UNCHANGED <<ret, unit, argv, tz, session_gap, out, result, file_size,
                   positions, i, found, attempts, completed, timestamps,
                   gap_ms, sessions, current_session, k, total_work_time,
                   daily_work, rows, j, ms, text>>

----------------------------------------------------------------------------
(* The program *)

Next ==
    \/ Usage \/ BadGap \/ Start
    \/ GetSizeFails \/ GetSize \/ ReadRegion \/ RegionTimeout \/ ExtractReturn
    \/ NoTimestamps \/ TimeRange
    \/ AnalyzeEmpty \/ AnalyzeStart \/ SplitSession \/ ExtendSession
    \/ AnalyzeReturn
    \/ TableHead \/ AggregateSession \/ Summary \/ Exit

Spec == Init /\ [][Next]_vars

\* every step of the run is eventually taken: the script is sequential and
\* each region's pipeline is cut off by its timeout
LiveSpec == Spec /\ WF_vars(Next)

NextIdiom == AnalyzeStart \/ SplitSession \/ ExtendSession \/ AnalyzeReturn

SpecIdiom == InitIdiom /\ [][NextIdiom]_vars

NextFormat == FormatCall

SpecFormat == InitFormat /\ [][NextFormat]_vars

----------------------------------------------------------------------------
(* Properties *)

Printed(tag) == \E n \in DOMAIN out : out[n] = tag
Requests == [m \in DOMAIN sessions |-> sessions[m].requests]
\* the input positions a session holds, by the request counts before it
FirstIndex(m) == 1 + SumSeq(SubSeq(Requests, 1, m - 1))
LastIndex(m) == SumSeq(SubSeq(Requests, 1, m))
\* the timestamps inside a session's time span
Within(session) ==
    {x \in DOMAIN timestamps :
        session.start <= timestamps[x] /\ timestamps[x] <= session.end}
\* max(end - start, 300000)
Clamped(session) == Max(session.end - session.start, 300000)
ClampedUpTo(n) == SumSeq([m \in 1..n |-> Clamped(sessions[m])])

\* C1: for a non-decreasing T and G > 0 the sessions analyze_sessions
\* returns cover every timestamp exactly once: they are ordered by start,
\* each ends strictly before the next starts, each has start <= end and a
\* request count >= 1 that is the number of timestamps in its span, and the
\* counts sum to len(T).
C1_SessionsCoverInput ==
    (pc = "analyzed" /\ session_gap > 0) =>
        /\ \A m \in DOMAIN sessions :
              /\ sessions[m].start <= sessions[m].end
              /\ sessions[m].requests >= 1
              /\ sessions[m].requests = Cardinality(Within(sessions[m]))
        /\ \A m \in DOMAIN sessions : \A n \in DOMAIN sessions :
              m < n => /\ sessions[m].start < sessions[n].start
                       /\ sessions[m].end < sessions[n].start
        /\ \A x \in DOMAIN timestamps :
              Cardinality({m \in DOMAIN sessions : x \in Within(sessions[m])}) = 1
        /\ SumSeq(Requests) = Len(timestamps)

\* C1 witness: a direct call on a list with a repeated timestamp returned
\* several sessions, one of them with more than one request.
C1_Witness ==
    /\ pc = "analyzed" /\ ret = "direct" /\ session_gap > 0
    /\ Len(sessions) >= 2
    /\ \E m \in DOMAIN sessions : sessions[m].requests >= 2
    /\ \E x \in DOMAIN timestamps :
          x > 1 /\ timestamps[x] = timestamps[x - 1]

\* C2: a session boundary lies between two consecutive timestamps exactly
\* when they differ by more than G*60*1000 ms: an equal gap does not split,
\* consecutive timestamps of one session differ by at most the threshold and
\* adjacent sessions are more than the threshold apart.
C2_BoundaryIffGapExceeds ==
    (pc = "analyzed" /\ timestamps # <<>>) =>
        LET threshold == session_gap * 60 * 1000
            n == Len(sessions)
        IN /\ n >= 1
           /\ LastIndex(n) = Len(timestamps)
           /\ \A m \in 1..n :
                 /\ sessions[m].start = timestamps[FirstIndex(m)]
                 /\ sessions[m].end = timestamps[LastIndex(m)]
                 /\ \A x \in (FirstIndex(m) + 1)..LastIndex(m) :
                       timestamps[x] - timestamps[x - 1] <= threshold
           /\ \A x \in 2..Len(timestamps) :
                 (\E m \in 2..n : FirstIndex(m) = x)
                     <=> (timestamps[x] - timestamps[x - 1] > threshold)
           /\ \A m \in 1..(n - 1) :
                 sessions[m + 1].start - sessions[m].end > threshold

\* C2 witness: the input held a gap equal to the threshold, which was kept
\* inside a session, and a larger gap, at which the sessions were split.
C2_Witness ==
    /\ pc = "analyzed"
    /\ \E m \in DOMAIN sessions : \E x \in DOMAIN timestamps :
          /\ FirstIndex(m) < x /\ x <= LastIndex(m)
          /\ timestamps[x] - timestamps[x - 1] = session_gap * 60 * 1000
    /\ Len(sessions) >= 2

\* C3: every session analyze_burp_project has processed counts with
\* max(end - start, 300000) ms, never less than 300000: that one value is
\* the duration printed in its row, the amount added to its day and the
\* amount added to the overall total.
C3_FloorAppliedOnce ==
    (pc \in {"aggregate", "returned", "exit"} /\ ret = "project") =>
        LET done == 1..(j - 1)
        IN /\ \A m \in done :
                 /\ Clamped(sessions[m]) >= 300000
                 /\ m <= Len(rows) =>
                       rows[m].duration = format_duration(Clamped(sessions[m]))
           /\ Len(rows) = IF Cardinality(done) <= 30 THEN Cardinality(done) ELSE 30
           /\ total_work_time = ClampedUpTo(j - 1)
           /\ \A d \in DOMAIN daily_work :
                 daily_work[d].time =
                    SumSeq([m \in 1..(j - 1) |->
                               IF DayKey(sessions[m].start) = d
                               THEN Clamped(sessions[m]) ELSE 0])

\* C3 witness: the run ended after booking a session shorter than five
\* minutes and one longer than five minutes.
C3_Witness ==
    /\ pc = "exit" /\ result.kind = "summary"
    /\ \E m \in DOMAIN sessions : sessions[m].end - sessions[m].start < 300000
    /\ \E m \in DOMAIN sessions : sessions[m].end - sessions[m].start > 300000

\* C4: after the aggregation loop the daily buckets partition the sessions
\* by the calendar date of their start: the buckets' times sum to the total
\* work time, their session counts to len(sessions), their request counts to
\* the number of timestamps, and the number of working days is the number of
\* distinct start dates.
C4_DailyBucketsPartition ==
    (pc \in {"returned", "exit"} /\ result.kind = "summary") =>
        LET days == {DayKey(sessions[m].start) : m \in DOMAIN sessions}
            members(d) == {m \in DOMAIN sessions : DayKey(sessions[m].start) = d}
            time == [d \in DOMAIN daily_work |-> daily_work[d].time]
            count == [d \in DOMAIN daily_work |-> daily_work[d].sessions]
            reqs == [d \in DOMAIN daily_work |-> daily_work[d].requests]
        IN /\ DOMAIN daily_work = days
           /\ \A d \in days :
                 /\ daily_work[d].sessions = Cardinality(members(d))
                 /\ daily_work[d].requests =
                       SumSeq([m \in DOMAIN sessions |->
                                  IF m \in members(d) THEN sessions[m].requests
                                  ELSE 0])
           /\ SumOver(time, days) = total_work_time
           /\ SumOver(count, days) = Len(sessions)
           /\ SumOver(reqs, days) = Len(timestamps)
           /\ result.total_days = Cardinality(days)
           /\ result.sessions = Len(sessions)
           /\ result.requests = Len(timestamps)

\* C4 witness: the summary was returned for sessions on two dates, two of
\* them on the same date.
C4_Witness ==
    /\ pc = "exit" /\ result.kind = "summary"
    /\ result.total_days = 2
    /\ \E d \in DOMAIN daily_work : daily_work[d].sessions >= 2

\* C5: with a gap of 99999 minutes analyze_sessions returns exactly one
\* session for every non-empty sorted list of 13-digit timestamps beginning
\* with 177: start = first, end = last, request count = len(T).
C5_IdiomGivesOneSession ==
    (pc = "analyzed" /\ session_gap = IdiomGap) =>
        /\ Len(sessions) = 1
        /\ sessions[1].start = timestamps[1]
        /\ sessions[1].end = timestamps[Len(timestamps)]
        /\ sessions[1].requests = Len(timestamps)

\* C6: an empty result of the extraction is a terminal "no data" outcome:
\* analyze_sessions returns an empty list for an empty input, and
\* analyze_burp_project prints the notice and returns None without
\* clustering and without the time range, the session table, the summary or
\* the table of days; the process does not end in an error.
C6_EmptyIsNoData ==
    /\ (pc = "analyzed" /\ timestamps = <<>>) => sessions = <<>>
    /\ (pc = "extracted" /\ timestamps = <<>>) =>
          ENABLED NoTimestamps /\ ~ENABLED TimeRange
    /\ (pc \in {"returned", "exit"} /\ Printed("sections") /\ timestamps = <<>>) =>
          /\ result = [kind |-> "None"]
          /\ out[Len(out)] = "no_timestamps"
          /\ \A tag \in {"found", "time_range", "session_table", "summary",
                         "per_day", "total", "estimate", "traceback"} :
                ~Printed(tag)
          /\ sessions = <<>> /\ current_session = NoSession /\ k = 0
          /\ rows = <<>> /\ daily_work = <<>> /\ total_work_time = 0
          /\ exit_code \in {-1, 0}

\* C6 witness: a run whose extraction found nothing has ended.
C6_Witness ==
    /\ pc = "exit" /\ Printed("no_timestamps") /\ timestamps = <<>>
    /\ exit_code = 0

UsageError == ~argv.file \/ argv.gap.kind = "bad"

\* C7 as stated: the exit status is non-zero only for a missing file
\* argument or a gap that is no integer; every other run exits with zero.
C7_OnlyUsageErrorsFail ==
    pc = "exit" => (exit_code # 0 <=> UsageError)

C7_ExitStatus ==
    pc = "exit" =>
        /\ ~argv.file => exit_code = 1 /\ out = <<"usage">>
        /\ (argv.file /\ argv.gap.kind = "bad") =>
              exit_code = 1 /\ out = <<"traceback">>
        /\ (argv.file /\ argv.gap.kind # "bad") =>
              /\ exit_code = 0 <=> Printed("file_size")
              /\ exit_code # 0 => out = <<"banner", "extracting", "traceback">>
              /\ exit_code = 0 => result.kind \in {"None", "summary"}
        /\ exit_code \in {0, 1}

\* C7: the process exits non-zero for a missing file argument (usage, before
\* any processing), for a gap argument that is no integer (before any file
\* I/O) and when the size of the named file cannot be read; in every other
\* invocation the run goes to completion and exits with zero, also when no
\* timestamps are found or a region times out.
C7_ExitsZeroUnlessArgumentsFail ==
    /\ []C7_ExitStatus
    /\ (ret = "project") => <>(pc = "exit")

\* C7 witness: a run in which a region timed out and nothing was found has
\* exited with status zero.
C7_Witness ==
    /\ pc = "exit" /\ exit_code = 0
    /\ Printed("timeout") /\ Printed("no_timestamps")

RECURSIVE Reach(_, _, _)
\* how far from offset 0 the regions read at ps[n..] extend a range already
\* read up to `upto' without leaving a hole
Reach(ps, n, upto) ==
    IF n > Len(ps) \/ RegionStart(ps[n]) > upto THEN upto
    ELSE Reach(ps, n + 1, Max(upto, RegionEnd(ps[n])))

\* C9: a file no larger than the threshold of 500 MB is scanned as a whole:
\* the regions read cover every byte offset in [0, file_size).
C9_SmallFilesScannedWhole ==
    (pc \in {"regions", "extracted"} /\ file_size <= 500 * 1024 * 1024) =>
        Reach(positions, 1, 0) >= file_size

C10_RegionsInOrder ==
    pc \in {"regions", "extracted"} =>
        /\ Len(attempts) = i - 1
        /\ Len(attempts) <= Len(positions)
        /\ \A n \in DOMAIN attempts : attempts[n][1] = positions[n]
        /\ \A n \in DOMAIN positions : n > 1 => positions[n - 1] < positions[n]
        /\ pc = "extracted" =>
              /\ Len(attempts) = Len(positions)
              /\ Range(timestamps) = completed
              /\ \A n \in DOMAIN timestamps :
                    n > 1 => timestamps[n - 1] < timestamps[n]

C10_TimeoutAddsNothing ==
    (/\ pc = "regions"
     /\ Len(attempts') = Len(attempts) + 1
     /\ attempts'[Len(attempts')][2] = "timeout") =>
        (found' = found /\ pc' = "regions")

\* C10: every selected region is attempted exactly once, in ascending
\* order of position; a region that times out adds no timestamps, is not
\* retried and does not keep later regions from being read; the function
\* always terminates and returns the ascending, duplicate-free union of the
\* timestamps of the regions that completed.
C10_BestEffortRegions ==
    /\ []C10_RegionsInOrder
    /\ [][C10_TimeoutAddsNothing]_vars
    /\ (pc = "regions") ~> (pc = "extracted")

\* C10 witness: extraction returned timestamps of a region read after one
\* that timed out.
C10_Witness ==
    /\ pc = "extracted"
    /\ timestamps # <<>>
    /\ \E n \in DOMAIN attempts :
          /\ n > 1
          /\ attempts[n - 1][2] = "timeout"
          /\ attempts[n][2] = "read"

=============================================================================
